---- MODULE Spec2Model ----
(***************************************************************************)
(* Model of the task list manager of src/project.py: the JSON document     *)
(* store (load_db, save_db, _validate_db), the id allocator                *)
(* (recompute_next_id), the task ledger (add_task, delete_task) and the    *)
(* command handlers (cmd_add, cmd_list, cmd_delete).                       *)
(***************************************************************************)
EXTENDS Integers, Sequences, FiniteSets, TLC

(***************************************************************************)
(* Bounds of the model.                                                    *)
(***************************************************************************)
\* add_task is not called once the document holds this many tasks
MaxTasks == 3
\* most tasks in the file the run starts from
MaxFileTasks == 2
\* largest integer id in the file the run starts from
MaxFileId == 2
\* largest integer next_id in the file the run starts from
MaxFileNextId == 3
\* add_task is not called once next_id exceeds this
MaxNextId == 4
\* in runs of main: add is not run once the file holds this many tasks, and
\* the file the run starts from holds at most MaxMainFileTasks tasks
MaxMainTasks == 2
MaxMainFileTasks == 1
\* largest id and most tasks in an argument of recompute_next_id taken alone
MaxAllocId == 4
MaxAllocLen == 3

(***************************************************************************)
(* Decoded JSON scalars: an integer, null (also what t.get("id") gives for *)
(* a task without id), a string, and "absent" for a key the object lacks.  *)
(***************************************************************************)
JInt(n) == [t |-> "int", v |-> n]
JNull == [t |-> "null", v |-> 0]
JStr == [t |-> "str", v |-> 0]
JAbsent == [t |-> "absent", v |-> 0]

\* isinstance(x, int)
IsInt(x) == x.t = "int"

\* characters of a title: one whitespace character and one other
Chars == {" ", "a"}
IsSpace(c) == c = " "

RECURSIVE SeqsUpTo(_, _)
SeqsUpTo(S, n) ==
  IF n = 0 THEN {<<>>}
  ELSE LET shorter == SeqsUpTo(S, n - 1)
       IN shorter \cup {Append(s, x) : s \in {q \in shorter : Len(q) = n - 1}, x \in S}

SetMax(S) == CHOOSE x \in S : \A y \in S : y <= x

(***************************************************************************)
(* Utilities.                                                              *)
(***************************************************************************)
\* recompute_next_id that takes the id of the last task, as if ids were ascending
recompute_next_id_of_last(tasks) ==
  LET max_id == IF tasks = <<>> THEN 0 ELSE tasks[Len(tasks)].id.v
  IN max_id + 1

\* max((t["id"] for t in tasks), default=0) + 1
recompute_next_id(tasks) ==
  LET max_id == SetMax({tasks[i].id.v : i \in DOMAIN tasks} \cup {0})
  IN max_id + 1

\* str.strip(): drop leading and trailing whitespace
RECURSIVE LStrip(_)
LStrip(s) == IF s # <<>> /\ IsSpace(Head(s)) THEN LStrip(Tail(s)) ELSE s
RECURSIVE RStrip(_)
RStrip(s) ==
  IF s # <<>> /\ IsSpace(s[Len(s)]) THEN RStrip(SubSeq(s, 1, Len(s) - 1)) ELSE s
Strip(s) == RStrip(LStrip(s))

\* str.split(): the maximal runs of non-whitespace characters, in order
RECURSIVE SplitFrom(_, _, _)
SplitFrom(s, word, words) ==
  IF s = <<>> THEN (IF word = <<>> THEN words ELSE Append(words, word))
  ELSE IF IsSpace(Head(s))
       THEN SplitFrom(Tail(s), <<>>, IF word = <<>> THEN words ELSE Append(words, word))
       ELSE SplitFrom(Tail(s), Append(word, Head(s)), words)
Split(s) == SplitFrom(s, <<>>, <<>>)

\* " ".join(words)
RECURSIVE Join(_)
Join(words) ==
  IF words = <<>> THEN <<>>
  ELSE IF Len(words) = 1 THEN words[1]
  ELSE words[1] \o <<" ">> \o Join(Tail(words))

\* normalize_title that trims but does not collapse inner whitespace
normalize_title_strip_only(title) == Strip(title)

\* " ".join(title.strip().split())
normalize_title(title) == Join(Split(Strip(title)))

(***************************************************************************)
(* Documents.  A task is a record id, title, done.  The in-memory document *)
(* is the decoded object: loaded says whether there is one, has_tasks      *)
(* whether it has the key "tasks".  The file is missing, not JSON          *)
(* ("corrupt") or a JSON object whose "tasks" is a list, absent or of      *)
(* another type.                                                           *)
(***************************************************************************)
NoTask == [id |-> JNull, title |-> <<>>, done |-> FALSE]
NoDb == [loaded |-> FALSE, has_tasks |-> FALSE, tasks |-> <<>>, next_id |-> 0]
MkDb(has_tasks, tasks, next_id) ==
  [loaded |-> TRUE, has_tasks |-> has_tasks, tasks |-> tasks, next_id |-> next_id]
MissingFile == [kind |-> "missing", tasks_kind |-> "absent", tasks |-> <<>>, next_id |-> JAbsent]
CorruptFile == [kind |-> "corrupt", tasks_kind |-> "absent", tasks |-> <<>>, next_id |-> JAbsent]
JsonFile(tasks_kind, tasks, next_id) ==
  [kind |-> "json", tasks_kind |-> tasks_kind, tasks |-> tasks, next_id |-> next_id]

\* ids = [t.get("id") for t in tasks]
Ids(tasks) == [i \in DOMAIN tasks |-> tasks[i].id]
\* len(ids) != len(set(ids))
HasDuplicates(ids) == Len(ids) # Cardinality({ids[i] : i \in DOMAIN ids})
\* any(not isinstance(tid, int) or tid <= 0 for tid in ids)
HasInvalidId(ids) == \E i \in DOMAIN ids : ~IsInt(ids[i]) \/ ids[i].v <= 0

\* _validate_db that accepts a larger stored next_id and keeps it in memory
validate_db_keep_stored(data) ==
  IF data.tasks_kind = "other" THEN [err |-> "InvalidShape", next_id |-> 0]
  ELSE LET tasks == data.tasks
           ids == Ids(tasks)
       IN IF HasDuplicates(ids) THEN [err |-> "DuplicateId", next_id |-> 0]
          ELSE IF HasInvalidId(ids) THEN [err |-> "InvalidId", next_id |-> 0]
          ELSE LET expected == recompute_next_id(tasks)
                   next_id == IF data.next_id = JAbsent THEN JInt(1) ELSE data.next_id
               IN IF ~IsInt(next_id) THEN [err |-> "TypeError", next_id |-> 0]
                  ELSE IF next_id.v < expected
                       THEN [err |-> "CounterCollisionRisk", next_id |-> 0]
                       ELSE [err |-> "ok", next_id |-> next_id.v]

\* _validate_db: the error raised ("ok" if none) and the next_id it stores
validate_db(data) ==
  IF data.tasks_kind = "other" THEN [err |-> "InvalidShape", next_id |-> 0]
  ELSE LET tasks == data.tasks
           ids == Ids(tasks)
       IN IF HasDuplicates(ids) THEN [err |-> "DuplicateId", next_id |-> 0]
          ELSE IF HasInvalidId(ids) THEN [err |-> "InvalidId", next_id |-> 0]
          ELSE LET expected == recompute_next_id(tasks)
                   next_id == IF data.next_id = JAbsent THEN JInt(1) ELSE data.next_id
               IN IF ~IsInt(next_id) THEN [err |-> "TypeError", next_id |-> 0]
                  ELSE IF next_id.v < expected
                       THEN [err |-> "CounterCollisionRisk", next_id |-> 0]
                       ELSE [err |-> "ok", next_id |-> expected]

\* load_db without the path.exists() test: reading a missing file raises
load_db_no_exists_check(f) ==
  IF f.kind = "missing" THEN [err |-> "FileNotFound", db |-> NoDb]
  ELSE IF f.kind = "corrupt" THEN [err |-> "MalformedEncoding", db |-> NoDb]
  ELSE LET v == validate_db(f)
       IN IF v.err # "ok" THEN [err |-> v.err, db |-> NoDb]
          ELSE [err |-> "ok", db |-> MkDb(f.tasks_kind = "list", f.tasks, v.next_id)]

\* load_db: the error raised ("ok" if none) and the document returned
load_db(f) ==
  IF f.kind = "missing" THEN [err |-> "ok", db |-> MkDb(TRUE, <<>>, 1)]
  ELSE IF f.kind = "corrupt" THEN [err |-> "MalformedEncoding", db |-> NoDb]
  ELSE LET v == validate_db(f)
       IN IF v.err # "ok" THEN [err |-> v.err, db |-> NoDb]
          ELSE [err |-> "ok", db |-> MkDb(f.tasks_kind = "list", f.tasks, v.next_id)]

\* save_db that never lowers the counter: keeps next_id when it is the larger
save_db_keep_larger(d, f) ==
  IF ~d.has_tasks THEN [err |-> "KeyError", db |-> d, file |-> f]
  ELSE LET safe == recompute_next_id(d.tasks)
           next_id == IF d.next_id > safe THEN d.next_id ELSE safe
       IN [err |-> "ok",
           db |-> [d EXCEPT !.next_id = next_id],
           file |-> JsonFile("list", d.tasks, JInt(next_id))]

\* save_db: the error raised, the document as save_db leaves it, the file written
save_db(d, f) ==
  IF ~d.has_tasks THEN [err |-> "KeyError", db |-> d, file |-> f]
  ELSE LET next_id == recompute_next_id(d.tasks)
       IN [err |-> "ok",
           db |-> [d EXCEPT !.next_id = next_id],
           file |-> JsonFile("list", d.tasks, JInt(next_id))]

\* add_task without db["next_id"] += 1
add_task_no_increment(d, raw) ==
  LET title == normalize_title(raw)
  IN IF title = <<>> THEN [err |-> "EmptyTitle", db |-> d, task |-> NoTask]
     ELSE LET task == [id |-> JInt(d.next_id), title |-> title, done |-> FALSE]
          IN IF ~d.has_tasks THEN [err |-> "KeyError", db |-> d, task |-> NoTask]
             ELSE [err |-> "ok",
                   db |-> [d EXCEPT !.tasks = Append(d.tasks, task)],
                   task |-> task]

\* add_task that tests the raw title, not the normalized one, for emptiness
add_task_checks_raw(d, raw) ==
  LET title == normalize_title(raw)
  IN IF raw = <<>> THEN [err |-> "EmptyTitle", db |-> d, task |-> NoTask]
     ELSE LET task == [id |-> JInt(d.next_id), title |-> title, done |-> FALSE]
          IN IF ~d.has_tasks THEN [err |-> "KeyError", db |-> d, task |-> NoTask]
             ELSE [err |-> "ok",
                   db |-> [d EXCEPT !.tasks = Append(d.tasks, task),
                                    !.next_id = d.next_id + 1],
                   task |-> task]

\* add_task that numbers the new task by the length of the list
add_task_id_from_length(d, raw) ==
  LET title == normalize_title(raw)
  IN IF title = <<>> THEN [err |-> "EmptyTitle", db |-> d, task |-> NoTask]
     ELSE LET task == [id |-> JInt(Len(d.tasks) + 1), title |-> title, done |-> FALSE]
          IN IF ~d.has_tasks THEN [err |-> "KeyError", db |-> d, task |-> NoTask]
             ELSE [err |-> "ok",
                   db |-> [d EXCEPT !.tasks = Append(d.tasks, task),
                                    !.next_id = d.next_id + 1],
                   task |-> task]

\* add_task: the error raised, the document as add_task leaves it, the task returned
add_task(d, raw) ==
  LET title == normalize_title(raw)
  IN IF title = <<>> THEN [err |-> "EmptyTitle", db |-> d, task |-> NoTask]
     ELSE LET task == [id |-> JInt(d.next_id), title |-> title, done |-> FALSE]
          IN IF ~d.has_tasks THEN [err |-> "KeyError", db |-> d, task |-> NoTask]
             ELSE [err |-> "ok",
                   db |-> [d EXCEPT !.tasks = Append(d.tasks, task),
                                    !.next_id = d.next_id + 1],
                   task |-> task]

\* the object add_task returns is the dict it has just appended to db["tasks"]:
\* its position in the list (0 when add_task raised and returned nothing)
returned_ref(r) == IF r.err = "ok" THEN Len(r.db.tasks) ELSE 0

\* the index of the first task with this id, 0 if there is none
FirstIndex(tasks, task_id) ==
  IF \E i \in DOMAIN tasks : tasks[i].id = task_id
  THEN CHOOSE i \in DOMAIN tasks :
         tasks[i].id = task_id /\ \A j \in 1..(i - 1) : tasks[j].id # task_id
  ELSE 0

\* a pop that also drops everything after index i
PopTruncate(s, i) == SubSeq(s, 1, i - 1)

\* list.pop(i)
Pop(s, i) == SubSeq(s, 1, i - 1) \o SubSeq(s, i + 1, Len(s))

\* delete_task that rejects only task_id < 0
delete_task_accepts_zero(d, task_id) ==
  IF ~IsInt(task_id) THEN [err |-> "InvalidIdType", db |-> d, task |-> NoTask]
  ELSE IF task_id.v < 0 THEN [err |-> "InvalidIdValue", db |-> d, task |-> NoTask]
  ELSE IF ~d.has_tasks THEN [err |-> "KeyError", db |-> d, task |-> NoTask]
  ELSE LET i == FirstIndex(d.tasks, task_id)
       IN IF i = 0 THEN [err |-> "NotFound", db |-> d, task |-> NoTask]
          ELSE [err |-> "ok",
                db |-> [d EXCEPT !.tasks = Pop(d.tasks, i)],
                task |-> d.tasks[i]]

\* delete_task: the error raised, the document as delete_task leaves it, the task returned
delete_task(d, task_id) ==
  IF ~IsInt(task_id) THEN [err |-> "InvalidIdType", db |-> d, task |-> NoTask]
  ELSE IF task_id.v <= 0 THEN [err |-> "InvalidIdValue", db |-> d, task |-> NoTask]
  ELSE IF ~d.has_tasks THEN [err |-> "KeyError", db |-> d, task |-> NoTask]
  ELSE LET i == FirstIndex(d.tasks, task_id)
       IN IF i = 0 THEN [err |-> "NotFound", db |-> d, task |-> NoTask]
          ELSE [err |-> "ok",
                db |-> [d EXCEPT !.tasks = Pop(d.tasks, i)],
                task |-> d.tasks[i]]

\* a printed line: a task line "{id:>3} [{mark}] {title}" or the placeholder
\* "(no hay tareas para mostrar)"; mark is "check" for a done task, "dot" otherwise
TaskLine(t) ==
  [kind |-> "task", id |-> t.id, mark |-> IF t.done THEN "check" ELSE "dot", title |-> t.title]
PlaceholderLine == [kind |-> "placeholder", id |-> JNull, mark |-> "", title |-> <<>>]

\* the loop of list_tasks: the lines printed for tasks, in order
RECURSIVE PrintLoop(_, _)
PrintLoop(tasks, show_all) ==
  IF tasks = <<>> THEN <<>>
  ELSE LET t == Head(tasks)
       IN IF ~show_all /\ t.done THEN PrintLoop(Tail(tasks), show_all)
          ELSE <<TaskLine(t)>> \o PrintLoop(Tail(tasks), show_all)

\* list_tasks that prints every task whatever show_all is
list_tasks_always_all(d, show_all) ==
  IF ~d.has_tasks THEN [err |-> "KeyError", out |-> <<>>]
  ELSE LET lines == PrintLoop(d.tasks, TRUE)
           shown == Len(lines)
       IN [err |-> "ok", out |-> IF shown = 0 THEN <<PlaceholderLine>> ELSE lines]

\* list_tasks: the error raised and the lines printed
list_tasks(d, show_all) ==
  IF ~d.has_tasks THEN [err |-> "KeyError", out |-> <<>>]
  ELSE LET lines == PrintLoop(d.tasks, show_all)
           shown == Len(lines)
       IN [err |-> "ok", out |-> IF shown = 0 THEN <<PlaceholderLine>> ELSE lines]

(***************************************************************************)
(* State: the file at DB_PATH, the document a caller of the library holds, *)
(* and the last library call with its argument, outcome and the state it   *)
(* started from; and, for runs of the command line, the last invocation    *)
(* with its exit code and the ids that successful adds have handed out;    *)
(* for concurrent runs, the invocations in progress (procs); and, for      *)
(* recompute_next_id taken alone, its argument and result (alloc).         *)
(***************************************************************************)
VARIABLES file, db, last, cli, procs, alloc

vars == <<file, db, last, cli, procs, alloc>>

\* number of invocations that may run at the same time
NumProcs == 2
Procs == 1..NumProcs
\* an invocation that has not started: no command, no document, no exit code.
\* seen is the file as load_db read it, stale says that another invocation
\* has saved since, wrote_last that this invocation's save is the latest.
IdleProc ==
  [pc |-> "idle", cmd |-> "none", title |-> <<>>, id |-> 0, show_all |-> FALSE,
   db |-> NoDb, seen |-> MissingFile, exit_code |-> 0, created |-> NoTask,
   stale |-> FALSE, wrote_last |-> FALSE]
\* no invocation of the command line yet
NoInvocation ==
  [cmd |-> "none", exit_code |-> 0, created |-> 0, earlier |-> {},
   title |-> <<>>, id |-> 0, show_all |-> FALSE, before |-> MissingFile,
   out |-> <<>>, loads |-> 0, saves |-> 0]
\* recompute_next_id not called
NoAlloc == [tasks |-> <<>>, called |-> FALSE, result |-> 0]

Call(op, title, id, r, pre_db, pre_file) ==
  [op |-> op, title |-> title, id |-> id, err |-> r.err, task |-> r.task,
   pre_db |-> pre_db, pre_file |-> pre_file, show_all |-> FALSE, out |-> <<>>, ref |-> 0]

\* raw titles passed to add_task: empty, blank, plain, padded, two words with
\* single and with repeated whitespace between and around them
RawTitles ==
  { <<>>, <<" ">>, <<" ", " ">>,
    <<"a">>, <<" ", "a", " ">>,
    <<"a", " ", "a">>, <<" ", "a", " ", " ", "a", " ">> }
FileIdValues == {JInt(n) : n \in 0..MaxFileId} \cup {JNull, JStr}
FileNextIdValues == {JInt(n) : n \in 0..MaxFileNextId} \cup {JAbsent, JStr}
FileTasks == [id : FileIdValues, title : {<<"a">>}, done : BOOLEAN]
DeleteArgs == {JInt(n) : n \in 0..MaxNextId} \cup {JStr}

InitFiles ==
  {MissingFile, CorruptFile}
    \cup {JsonFile("list", ts, n) : ts \in SeqsUpTo(FileTasks, MaxFileTasks), n \in FileNextIdValues}
    \cup {JsonFile(k, <<>>, n) : k \in {"absent", "other"}, n \in FileNextIdValues}

Init ==
  /\ file \in InitFiles
  /\ db = NoDb
  /\ last = [op |-> "none", title |-> <<>>, id |-> JNull, err |-> "ok", task |-> NoTask,
             pre_db |-> NoDb, pre_file |-> file, show_all |-> FALSE, out |-> <<>>, ref |-> 0]
  /\ cli = NoInvocation
  /\ procs = [p \in Procs |-> IdleProc]
  /\ alloc = NoAlloc

\* db = load_db(path); on an exception the caller's document is what it was
LoadDb ==
  LET r == load_db(file)
  IN /\ db' = IF r.err = "ok" THEN r.db ELSE db
     /\ last' = Call("load", <<>>, JNull, [err |-> r.err, task |-> NoTask], db, file)
     /\ UNCHANGED <<file, cli, procs, alloc>>

\* add_task(db, title)
AddTask(title) ==
  /\ db.loaded
  /\ Len(db.tasks) < MaxTasks
  /\ db.next_id <= MaxNextId
  /\ LET r == add_task(db, title)
     IN /\ db' = r.db
        /\ last' = [Call("add", title, JNull, r, db, file) EXCEPT !.ref = returned_ref(r)]
  /\ UNCHANGED <<file, cli, procs, alloc>>

\* delete_task(db, task_id)
DeleteTask(task_id) ==
  /\ db.loaded
  /\ LET r == delete_task(db, task_id)
     IN /\ db' = r.db
        /\ last' = Call("delete", <<>>, task_id, r, db, file)
  /\ UNCHANGED <<file, cli, procs, alloc>>

\* list_tasks(db, show_all)
ListTasks(show_all) ==
  /\ db.loaded
  /\ LET r == list_tasks(db, show_all)
     IN last' = [Call("list", <<>>, JNull, [err |-> r.err, task |-> NoTask], db, file)
                   EXCEPT !.show_all = show_all, !.out = r.out]
  /\ UNCHANGED <<file, db, cli, procs, alloc>>

\* save_db(db, path)
SaveDb ==
  /\ db.loaded
  /\ LET r == save_db(db, file)
     IN /\ db' = r.db
        /\ file' = r.file
        /\ last' = Call("save", <<>>, JNull, [err |-> r.err, task |-> NoTask], db, file)
  /\ UNCHANGED <<cli, procs, alloc>>

Next ==
  \/ LoadDb
  \/ \E title \in RawTitles : AddTask(title)
  \/ \E task_id \in DeleteArgs : DeleteTask(task_id)
  \/ \E show_all \in BOOLEAN : ListTasks(show_all)
  \/ SaveDb

Spec == Init /\ [][Next]_vars

(***************************************************************************)
(* The caller of add_task changing the dict it was given back: the change  *)
(* reaches whatever object last.ref says that dict is.                     *)
(***************************************************************************)
\* task = add_task(db, title); task["done"] = True
MutateReturned ==
  /\ last.op = "add" /\ last.err = "ok"
  /\ db' = IF last.ref > 0 THEN [db EXCEPT !.tasks[last.ref].done = TRUE] ELSE db
  /\ last' = [last EXCEPT !.op = "mutate", !.task.done = TRUE, !.pre_db = db]
  /\ UNCHANGED <<file, cli, procs, alloc>>

NextAlias ==
  \/ LoadDb
  \/ \E title \in RawTitles : AddTask(title)
  \/ MutateReturned

SpecAlias == Init /\ [][NextAlias]_vars

(***************************************************************************)
(* recompute_next_id taken alone, on every sequence of tasks with positive *)
(* integer ids, repeated or not, in any order.                             *)
(***************************************************************************)
AllocTasks == [id : {JInt(n) : n \in 1..MaxAllocId}, title : {<<"a">>}, done : {FALSE}]

InitAlloc ==
  /\ file = MissingFile
  /\ db = NoDb
  /\ last = [op |-> "none", title |-> <<>>, id |-> JNull, err |-> "ok", task |-> NoTask,
             pre_db |-> NoDb, pre_file |-> file, show_all |-> FALSE, out |-> <<>>, ref |-> 0]
  /\ cli = NoInvocation
  /\ procs = [p \in Procs |-> IdleProc]
  /\ alloc \in {[tasks |-> ts, called |-> FALSE, result |-> 0] :
                  ts \in SeqsUpTo(AllocTasks, MaxAllocLen)}

\* recompute_next_id(tasks)
Recompute ==
  /\ ~alloc.called
  /\ alloc' = [alloc EXCEPT !.called = TRUE, !.result = recompute_next_id(alloc.tasks)]
  /\ UNCHANGED <<file, db, last, cli, procs>>

NextAlloc == Recompute

SpecAlloc == InitAlloc /\ [][NextAlloc]_vars

(***************************************************************************)
(* Command handlers: one invocation of the command line is one step, run   *)
(* to its exit code.  Each loads the file, applies one ledger operation    *)
(* and saves; any exception gives exit code 2.                             *)
(***************************************************************************)
Handed == IF cli.created > 0 THEN cli.earlier \cup {cli.created} ELSE cli.earlier

\* what an invocation reports: exit code, file left, id created (0 if none),
\* lines printed by list_tasks, number of load_db and of save_db calls made
Outcome(exit_code, f, created, out, saves) ==
  [exit_code |-> exit_code, file |-> f, created |-> created, out |-> out,
   loads |-> 1, saves |-> saves]

\* cmd_add: load_db, add_task, save_db; exit code 0, or 2 on any exception
cmd_add(f, title) ==
  LET l == load_db(f)
  IN IF l.err # "ok" THEN Outcome(2, f, 0, <<>>, 0)
     ELSE LET a == add_task(l.db, title)
          IN IF a.err # "ok" THEN Outcome(2, f, 0, <<>>, 0)
             ELSE LET s == save_db(a.db, f)
                  IN IF s.err # "ok" THEN Outcome(2, f, 0, <<>>, 1)
                     ELSE Outcome(0, s.file, a.task.id.v, <<>>, 1)

\* a cmd_list that writes the document it loaded back to the file
cmd_list_saves(f, show_all) ==
  LET l == load_db(f)
  IN IF l.err # "ok" THEN Outcome(2, f, 0, <<>>, 0)
     ELSE LET r == list_tasks(l.db, show_all)
          IN IF r.err # "ok" THEN Outcome(2, f, 0, <<>>, 0)
             ELSE Outcome(0, save_db(l.db, f).file, 0, r.out, 1)

\* cmd_list: load_db, list_tasks; exit code 0, or 2 on any exception
cmd_list(f, show_all) ==
  LET l == load_db(f)
  IN IF l.err # "ok" THEN Outcome(2, f, 0, <<>>, 0)
     ELSE LET r == list_tasks(l.db, show_all)
          IN IF r.err # "ok" THEN Outcome(2, f, 0, <<>>, 0)
             ELSE Outcome(0, f, 0, r.out, 0)

\* cmd_delete: load_db, delete_task(int(id)), save_db; exit code 0, or 2 on any exception
cmd_delete(f, id) ==
  LET l == load_db(f)
  IN IF l.err # "ok" THEN Outcome(2, f, 0, <<>>, 0)
     ELSE LET r == delete_task(l.db, JInt(id))
          IN IF r.err # "ok" THEN Outcome(2, f, 0, <<>>, 0)
             ELSE LET s == save_db(r.db, f)
                  IN IF s.err # "ok" THEN Outcome(2, f, 0, <<>>, 1)
                     ELSE Outcome(0, s.file, 0, <<>>, 1)

\* parsed command lines: the subcommand ("help" when none was given) and its arguments
Argv(cmd, title, id, show_all) == [cmd |-> cmd, title |-> title, id |-> id, show_all |-> show_all]

\* main: without a subcommand prints the help and returns 1, calling no
\* handler; otherwise returns what the subcommand's handler returns
main(f, argv) ==
  IF argv.cmd = "help"
  THEN [exit_code |-> 1, file |-> f, created |-> 0, out |-> <<>>, loads |-> 0, saves |-> 0]
  ELSE IF argv.cmd = "add" THEN cmd_add(f, argv.title)
  ELSE IF argv.cmd = "list" THEN cmd_list(f, argv.show_all)
  ELSE cmd_delete(f, argv.id)

CliDeleteArgs == 0..MaxNextId

\* the record of an invocation: its command and arguments, the file it found,
\* what it reported, and the ids handed out before it
Invocation(cmd, title, id, show_all, r) ==
  [cmd |-> cmd, exit_code |-> r.exit_code, created |-> r.created, earlier |-> Handed,
   title |-> title, id |-> id, show_all |-> show_all, before |-> file,
   out |-> r.out, loads |-> r.loads, saves |-> r.saves]

CmdAdd(title) ==
  /\ LET l == load_db(file)
     IN l.err = "ok" => Len(l.db.tasks) < MaxTasks /\ l.db.next_id <= MaxNextId
  /\ LET r == cmd_add(file, title)
     IN /\ file' = r.file
        /\ cli' = Invocation("add", title, 0, FALSE, r)
  /\ UNCHANGED <<db, last, procs, alloc>>

CmdDelete(id) ==
  /\ LET r == cmd_delete(file, id)
     IN /\ file' = r.file
        /\ cli' = Invocation("delete", <<>>, id, FALSE, r)
  /\ UNCHANGED <<db, last, procs, alloc>>

NextCli ==
  \/ \E title \in RawTitles : CmdAdd(title)
  \/ \E id \in CliDeleteArgs : CmdDelete(id)

SpecCli == Init /\ [][NextCli]_vars

(***************************************************************************)
(* Any invocation of main, one after the other, each run to its exit code. *)
(***************************************************************************)
InitMain == Init /\ Len(file.tasks) <= MaxMainFileTasks

\* main(argv)
Main(argv) ==
  /\ argv.cmd = "add" =>
       LET l == load_db(file)
       IN l.err = "ok" => Len(l.db.tasks) < MaxMainTasks /\ l.db.next_id <= MaxNextId
  /\ LET r == main(file, argv)
     IN /\ file' = r.file
        /\ cli' = [Invocation(argv.cmd, argv.title, argv.id, argv.show_all, r)
                    EXCEPT !.earlier = {}]
  /\ UNCHANGED <<db, last, procs, alloc>>

MainAdd(title) == Main(Argv("add", title, 0, FALSE))
MainList(show_all) == Main(Argv("list", <<>>, 0, show_all))
MainDelete(id) == Main(Argv("delete", <<>>, id, FALSE))
MainHelp == Main(Argv("help", <<>>, 0, FALSE))

NextMain ==
  \/ \E title \in RawTitles : MainAdd(title)
  \/ \E show_all \in BOOLEAN : MainList(show_all)
  \/ \E id \in CliDeleteArgs : MainDelete(id)
  \/ MainHelp

SpecMain == InitMain /\ [][NextMain]_vars

(***************************************************************************)
(* Concurrent invocations on the same file, without locking.  Reading the  *)
(* file in load_db and writing it in save_db are each one step; between    *)
(* them an invocation works on its own document.  Each of the NumProcs     *)
(* processes is one invocation, started at any time.                       *)
(***************************************************************************)
\* the file after the write of save_db: whatever the file holds by then is replaced
write_file_unless_changed(pr, f) == IF f = pr.seen THEN save_db(pr.db, f).file ELSE f
write_file(pr, f) == save_db(pr.db, f).file

\* the ledger operation of a handler on the document it loaded
ledger_op(pr) ==
  IF pr.cmd = "add" THEN add_task(pr.db, pr.title)
  ELSE IF pr.cmd = "delete" THEN delete_task(pr.db, JInt(pr.id))
  ELSE LET r == list_tasks(pr.db, pr.show_all)
       IN [err |-> r.err, db |-> pr.db, task |-> NoTask]

InitConc == Init /\ Len(file.tasks) <= MaxMainFileTasks /\ load_db(file).err = "ok"

\* a handler starts and runs db = load_db(DB_PATH)
ProcLoad(p, argv) ==
  /\ procs[p].pc = "idle"
  /\ LET l == load_db(file)
     IN /\ argv.cmd = "add" /\ l.err = "ok" =>
             Len(l.db.tasks) < MaxMainTasks /\ l.db.next_id <= MaxNextId
        /\ procs' = [procs EXCEPT ![p] =
             [pc |-> IF l.err = "ok" THEN "loaded" ELSE "done",
              cmd |-> argv.cmd, title |-> argv.title, id |-> argv.id,
              show_all |-> argv.show_all, db |-> l.db, seen |-> file,
              exit_code |-> IF l.err = "ok" THEN 0 ELSE 2, created |-> NoTask,
              stale |-> FALSE, wrote_last |-> procs[p].wrote_last]]
  /\ UNCHANGED <<file, db, last, cli, alloc>>

\* add_task / list_tasks / delete_task on the loaded document; cmd_list returns 0 here
ProcApply(p) ==
  /\ procs[p].pc = "loaded"
  /\ LET r == ledger_op(procs[p])
     IN procs' = [procs EXCEPT ![p].db = IF r.err = "ok" /\ procs[p].cmd # "list" THEN r.db ELSE NoDb,
                               ![p].created = r.task,
                               ![p].exit_code = IF r.err = "ok" THEN 0 ELSE 2,
                               ![p].pc = IF r.err = "ok" /\ procs[p].cmd # "list"
                                         THEN "ready" ELSE "done"]
  /\ UNCHANGED <<file, db, last, cli, alloc>>

\* save_db(db, DB_PATH), then return 0
ProcSave(p) ==
  /\ procs[p].pc = "ready"
  /\ file' = write_file(procs[p], file)
  /\ procs' = [q \in Procs |->
       IF q = p
       THEN [procs[p] EXCEPT !.db = NoDb,
                             !.pc = "done", !.exit_code = 0, !.wrote_last = TRUE]
       ELSE [procs[q] EXCEPT !.wrote_last = FALSE,
                             !.stale = procs[q].stale \/ procs[q].pc \in {"loaded", "ready"}]]
  /\ UNCHANGED <<db, last, cli, alloc>>

\* command lines of the concurrent invocations: a blank title, two titles
\* that differ after normalisation, a listing, and ids present or not
ConcTitles == { <<" ">>, <<"a">>, <<" ", "a", " ", " ", "a", " ">> }
Argvs ==
  {Argv("add", title, 0, FALSE) : title \in ConcTitles}
    \cup {Argv("list", <<>>, 0, FALSE)}
    \cup {Argv("delete", <<>>, id, FALSE) : id \in 0..MaxFileId}

NextConc ==
  \/ \E p \in Procs : \E argv \in Argvs : ProcLoad(p, argv)
  \/ \E p \in Procs : ProcApply(p)
  \/ \E p \in Procs : ProcSave(p)

SpecConc == InitConc /\ [][NextConc]_vars

(***************************************************************************)
(* Properties.                                                             *)
(***************************************************************************)
PositiveIds(tasks) == \A i \in DOMAIN tasks : tasks[i].id.t = "int" /\ tasks[i].id.v >= 1
DistinctIds(tasks) ==
  \A i \in DOMAIN tasks : \A j \in DOMAIN tasks : i # j => tasks[i].id # tasks[j].id
AboveAllIds(n, tasks) == n >= 1 /\ \A i \in DOMAIN tasks : n >= 1 + tasks[i].id.v
\* the least positive integer greater than every id of tasks
LeastAbove(tasks) ==
  CHOOSE n \in 1..(MaxNextId + MaxFileId + 2) :
    /\ \A i \in DOMAIN tasks : n > tasks[i].id.v
    /\ \A m \in 1..(n - 1) : \E i \in DOMAIN tasks : m <= tasks[i].id.v
\* the stored counter as _validate_db reads it: an absent next_id counts as 1
NumericNextId(f) == f.next_id = JAbsent \/ IsInt(f.next_id)
StoredNextId(f) == IF f.next_id = JAbsent THEN 1 ELSE f.next_id.v
NoDoubleSpace(t) == \A i \in 1..(Len(t) - 1) : ~(IsSpace(t[i]) /\ IsSpace(t[i + 1]))
Trimmed(t) == t = <<>> \/ (~IsSpace(t[1]) /\ ~IsSpace(t[Len(t)]))
NonSpaces(t) == SelectSeq(t, LAMBDA c : ~IsSpace(c))
Blank(t) == \A i \in DOMAIN t : IsSpace(t[i])
Without(tasks, task_id) == SelectSeq(tasks, LAMBDA t : t.id # task_id)

\* C1: once a document has been loaded (from a missing file or a file that
\* load_db accepts), after every sequence of load_db, add_task, delete_task
\* and save_db calls the in-memory document and the file both have ids that
\* are integers >= 1 and pairwise distinct, and next_id >= 1 + max(ids)
\* (>= 1 without tasks; an absent stored next_id counts as 1).
C1_IdIntegrity ==
  /\ db.loaded =>
       /\ PositiveIds(db.tasks)
       /\ DistinctIds(db.tasks)
       /\ AboveAllIds(db.next_id, db.tasks)
  /\ (db.loaded \/ load_db(file).err = "ok") /\ file.kind = "json" =>
       /\ PositiveIds(file.tasks)
       /\ DistinctIds(file.tasks)
       /\ NumericNextId(file)
       /\ AboveAllIds(StoredNextId(file), file.tasks)
C1_Witness ==
  /\ last.op = "save" /\ last.err = "ok"
  /\ Len(file.tasks) >= 1
  /\ last.pre_db.next_id > db.next_id
  /\ last.pre_file.kind = "json"

\* C2: over any sequence of command-line invocations on the same file, the
\* id a successful add assigns is strictly greater than every id assigned
\* by an earlier add, deleted or not: no id is handed out twice.
C2_IdsNeverReused ==
  cli.cmd = "add" /\ cli.exit_code = 0 => \A i \in cli.earlier : cli.created > i

\* C3: add_task on a document with a title whose normalized form is not
\* empty returns a task with id = the pre-call next_id, the normalized title
\* (trimmed, inner whitespace runs collapsed to one space, other characters
\* kept) and done = false, appends exactly that task after the earlier
\* tasks, which stay as they were, and increases next_id by exactly 1.
C3_AddTask ==
  last.op = "add" /\ last.pre_db.has_tasks /\ ~Blank(last.title) =>
    /\ last.err = "ok"
    /\ last.task.id = JInt(last.pre_db.next_id)
    /\ last.task.done = FALSE
    /\ last.task.title = normalize_title(last.title)
    /\ Trimmed(last.task.title) /\ NoDoubleSpace(last.task.title)
    /\ NonSpaces(last.task.title) = NonSpaces(last.title)
    /\ db.tasks = Append(last.pre_db.tasks, last.task)
    /\ db.next_id = last.pre_db.next_id + 1
    /\ db.has_tasks /\ db.loaded
C3_Witness ==
  /\ last.op = "add" /\ last.err = "ok"
  /\ last.task.title = <<"a", " ", "a">>
  /\ Len(last.title) > 3
  /\ Len(last.pre_db.tasks) >= 1

\* C4: add_task with a title that is empty or all whitespace fails with
\* EmptyTitle and leaves the document as it was: no task appended, next_id
\* as before the call.
C4_EmptyTitle ==
  last.op = "add" /\ Blank(last.title) =>
    /\ last.err = "EmptyTitle"
    /\ last.task = NoTask
    /\ db = last.pre_db
    /\ file = last.pre_file
C4_Witness ==
  /\ last.op = "add" /\ last.err = "EmptyTitle"
  /\ Len(last.title) >= 2
  /\ Len(db.tasks) >= 1

\* C5: delete_task with a positive integer id present in the document
\* removes exactly the task with that id, leaves the other tasks unchanged in
\* the same order and next_id unchanged, and returns the removed task's
\* prior id, title and done.
C5_DeletePresent ==
  /\ last.op = "delete" /\ IsInt(last.id) /\ last.id.v >= 1
  /\ \E i \in DOMAIN last.pre_db.tasks : last.pre_db.tasks[i].id = last.id
  =>
    /\ last.err = "ok"
    /\ \E i \in DOMAIN last.pre_db.tasks :
         /\ last.pre_db.tasks[i] = last.task
         /\ last.task.id = last.id
    /\ db.tasks = Without(last.pre_db.tasks, last.id)
    /\ Len(db.tasks) = Len(last.pre_db.tasks) - 1
    /\ db.next_id = last.pre_db.next_id
    /\ file = last.pre_file
C5_Witness ==
  /\ last.op = "delete" /\ last.err = "ok"
  /\ Len(last.pre_db.tasks) = 3
  /\ last.task = last.pre_db.tasks[2]
  /\ last.task.done

\* C6: delete_task fails with InvalidIdType for an id that is not an
\* integer, with InvalidIdValue for an integer <= 0 and with NotFound for a
\* positive integer that no task of the document has; in each case the tasks
\* and next_id are as before the call.
C6_DeleteFailures ==
  last.op = "delete" =>
    /\ ~IsInt(last.id) => last.err = "InvalidIdType"
    /\ IsInt(last.id) /\ last.id.v <= 0 => last.err = "InvalidIdValue"
    /\ /\ IsInt(last.id) /\ last.id.v >= 1 /\ last.pre_db.has_tasks
       /\ \A i \in DOMAIN last.pre_db.tasks : last.pre_db.tasks[i].id # last.id
       => last.err = "NotFound"
    /\ last.err \in {"InvalidIdType", "InvalidIdValue", "NotFound"} =>
         db = last.pre_db /\ file = last.pre_file /\ last.task = NoTask
C6_Witness ==
  /\ last.op = "delete" /\ last.err = "InvalidIdValue"
  /\ last.id = JInt(0)
  /\ Len(db.tasks) >= 2

\* C7: load_db where no file exists returns the empty document
\* {next_id: 1, tasks: []} and creates no file.
C7_LoadMissing ==
  last.op = "load" /\ last.pre_file.kind = "missing" =>
    /\ last.err = "ok"
    /\ db = MkDb(TRUE, <<>>, 1)
    /\ file = MissingFile
C7_Witness ==
  last.op = "load" /\ last.pre_file.kind = "missing" /\ last.err = "ok" /\ db.loaded

\* C8: for an existing file with valid distinct ids and an integer or absent
\* next_id, with expected = 1 + max(ids, default 0): load_db fails with
\* CounterCollisionRisk exactly when the stored next_id (absent counts as 1)
\* is < expected; otherwise it succeeds and the document's next_id is
\* expected, and an add_task right after the load assigns the id expected.
C8_CounterCheck ==
  LET f == last.pre_file
      expected == LeastAbove(f.tasks)
      valid == /\ f.kind = "json" /\ f.tasks_kind # "other"
               /\ PositiveIds(f.tasks) /\ DistinctIds(f.tasks) /\ NumericNextId(f)
  IN /\ last.op = "load" /\ valid =>
          /\ last.err = "CounterCollisionRisk" <=> StoredNextId(f) < expected
          /\ StoredNextId(f) >= expected =>
               last.err = "ok" /\ db.loaded /\ db.next_id = expected
     /\ /\ last.op = "add" /\ last.err = "ok" /\ valid
        /\ load_db(f).err = "ok" /\ load_db(f).db = last.pre_db
        => last.task.id = JInt(expected)
C8_Witness ==
  /\ last.op = "add" /\ last.err = "ok"
  /\ last.pre_file.kind = "json"
  /\ load_db(last.pre_file).err = "ok" /\ load_db(last.pre_file).db = last.pre_db
  /\ IsInt(last.pre_file.next_id)
  /\ last.pre_file.next_id.v > last.task.id.v
  /\ Len(last.pre_file.tasks) >= 1

\* C9: loading an existing file in which some task's id is missing, not an
\* integer or < 1 fails with InvalidId, also when that id occurs more than
\* once; loading a file whose ids are all integers >= 1 and in which two
\* tasks share an id fails with DuplicateId.
C9_IdErrors ==
  LET f == last.pre_file
  IN last.op = "load" /\ f.kind = "json" /\ f.tasks_kind = "list" =>
       /\ ~PositiveIds(f.tasks) => last.err = "InvalidId"
       /\ PositiveIds(f.tasks) /\ ~DistinctIds(f.tasks) => last.err = "DuplicateId"

\* C10: a successful save_db sets next_id to 1 + max(task ids) (1 without
\* tasks) whatever it held before, in the in-memory document and in the
\* file, and replaces the whole file by the document: the persisted next_id
\* is exactly 1 + max(persisted ids).
C10_SaveRecomputes ==
  last.op = "save" /\ last.err = "ok" =>
    /\ db.tasks = last.pre_db.tasks
    /\ db.next_id = LeastAbove(db.tasks)
    /\ file = JsonFile("list", db.tasks, JInt(LeastAbove(db.tasks)))
C10_Witness ==
  /\ last.op = "save" /\ last.err = "ok"
  /\ last.pre_db.next_id # db.next_id
  /\ last.pre_file.kind = "json" /\ last.pre_file.tasks # file.tasks
  /\ Len(file.tasks) >= 1

\* C11: round trip: for every document d reached by load_db followed by
\* add_task and delete_task calls, save_db(d, p) succeeds and the load_db(p)
\* that follows succeeds and returns the same task sequence as d with
\* next_id = 1 + max(ids).
C11_RoundTrip ==
  /\ last.op = "save" => last.err = "ok"
  /\ /\ last.op = "load" /\ last.pre_db.loaded /\ last.pre_db.has_tasks
     /\ last.pre_file = JsonFile("list", last.pre_db.tasks, JInt(last.pre_db.next_id))
     => /\ last.err = "ok"
        /\ db.tasks = last.pre_db.tasks
        /\ db.has_tasks
        /\ db.next_id = LeastAbove(db.tasks)

\* C18: every document load_db returns has both a tasks list and a next_id,
\* so that no later add_task, delete_task or save_db fails for a missing
\* key; a file without "tasks" fails to load or loads with tasks = [].
C18_LoadedDocumentComplete ==
  /\ db.loaded => db.has_tasks
  /\ last.err # "KeyError"

\* C13: list_tasks on a document prints, in stored order, one line for each
\* task with done = false when show_all is false and for every task when
\* show_all is true; prints exactly the one placeholder line when no task
\* passes the filter; and leaves the tasks and next_id as they were.
C13_ListTasks ==
  last.op = "list" /\ last.pre_db.has_tasks =>
    LET shown == SelectSeq(last.pre_db.tasks, LAMBDA t : last.show_all \/ ~t.done)
    IN /\ last.err = "ok"
       /\ shown = <<>> => last.out = <<PlaceholderLine>>
       /\ shown # <<>> =>
            /\ Len(last.out) = Len(shown)
            /\ \A i \in DOMAIN shown :
                 /\ last.out[i].kind = "task"
                 /\ last.out[i].id = shown[i].id
                 /\ last.out[i].title = shown[i].title
                 /\ last.out[i].mark = (IF shown[i].done THEN "check" ELSE "dot")
       /\ db = last.pre_db
       /\ file = last.pre_file
C13_Witness ==
  /\ last.op = "list" /\ last.err = "ok" /\ ~last.show_all
  /\ Len(db.tasks) = 3
  /\ db.tasks[1].done /\ ~db.tasks[2].done
  /\ Len(last.out) = 2

\* C14: for every sequence of tasks with positive integer ids,
\* recompute_next_id returns an integer strictly greater than every id of
\* the sequence, and the smallest such positive integer: 1 for the empty
\* sequence, otherwise one more than an id that occurs.
C14_NextSafeId ==
  alloc.called =>
    /\ alloc.result >= 1
    /\ \A i \in DOMAIN alloc.tasks : alloc.result > alloc.tasks[i].id.v
    /\ \/ alloc.result = 1
       \/ \E i \in DOMAIN alloc.tasks : alloc.tasks[i].id.v = alloc.result - 1
    /\ alloc.tasks = <<>> => alloc.result = 1
C14_Witness ==
  /\ alloc.called
  /\ Len(alloc.tasks) = 3
  /\ alloc.tasks[1].id.v > alloc.tasks[3].id.v
  /\ alloc.tasks[2].id = alloc.tasks[3].id
  /\ alloc.result = alloc.tasks[1].id.v + 1

\* C17: add_task returns the created task by value: a later change to the
\* returned record is not visible in the record stored in the document.
C17_ReturnedByValue ==
  last.op = "mutate" => db = last.pre_db

\* C12: exit status of an invocation: add returns 0 on success and 2 on a
\* load or EmptyTitle failure; list returns 0 unless load_db fails, and then
\* 2; delete returns 0 on success and 2 on NotFound, InvalidIdValue or a load
\* failure; without a subcommand the exit status is 1; every invocation ends
\* with one of these exit codes.
C12_ExitStatus ==
  LET loaded == load_db(cli.before).err = "ok"
      present == \E i \in DOMAIN cli.before.tasks : cli.before.tasks[i].id = JInt(cli.id)
  IN /\ cli.cmd = "add" =>
          /\ cli.exit_code \in {0, 2}
          /\ ~loaded \/ Blank(cli.title) => cli.exit_code = 2
          /\ cli.exit_code = 0 => cli.created >= 1
     /\ cli.cmd = "list" => cli.exit_code = (IF loaded THEN 0 ELSE 2)
     /\ cli.cmd = "delete" =>
          /\ cli.exit_code \in {0, 2}
          /\ ~loaded \/ cli.id <= 0 \/ ~present => cli.exit_code = 2
          /\ cli.exit_code = 0 => present
     /\ cli.cmd = "help" => cli.exit_code = 1

\* C15: the file changes only through an add or delete invocation that
\* returns 0; a list invocation, and an add or delete invocation that returns
\* 2 after failing in load_db or in the ledger operation, calls save_db not
\* at all and leaves the file exactly as it was; every add, list and delete
\* invocation calls load_db once and save_db at most once.
C15_NoPartialApplication ==
  cli.cmd \in {"add", "list", "delete"} =>
    /\ file # cli.before => cli.cmd \in {"add", "delete"} /\ cli.exit_code = 0
    /\ cli.cmd = "list" \/ cli.exit_code = 2 => cli.saves = 0 /\ file = cli.before
    /\ cli.loads = 1
    /\ cli.saves <= 1
    /\ cli.exit_code = 0 /\ cli.cmd # "list" => cli.saves = 1
C15_Witness ==
  /\ cli.cmd = "list" /\ cli.exit_code = 0
  /\ file.kind = "json" /\ IsInt(file.next_id)
  /\ Len(file.tasks) >= 1
  /\ file.next_id.v > LeastAbove(file.tasks)


\* an invocation that changed the file: add or delete that returned 0
Saved(p) ==
  procs[p].pc = "done" /\ procs[p].exit_code = 0 /\ procs[p].cmd \in {"add", "delete"}
\* the tasks of the file an invocation loaded
SeenTasks(p) == procs[p].seen.tasks
\* what one invocation alone makes of the tasks it loaded
OwnResult(p) ==
  IF procs[p].cmd = "add" THEN Append(SeenTasks(p), procs[p].created)
  ELSE Without(SeenTasks(p), JInt(procs[p].id))

\* C16: lost update: an add or delete that loaded the file before another
\* invocation saved it, and saves after it, is not stopped and reports no
\* failure: it returns 0 and the file then holds exactly the tasks it loaded
\* with its own change applied, so the other invocation's change is gone
\* (last writer wins, no detection).
C16_LostUpdate ==
  \A q \in Procs :
    procs[q].stale /\ procs[q].pc = "done" /\ procs[q].wrote_last =>
      /\ procs[q].exit_code = 0
      /\ file = JsonFile("list", OwnResult(q), JInt(LeastAbove(OwnResult(q))))
\* both loaded the same file before either saved, both returned 0, and the
\* task the first writer added is in no position of the final file
C16_Witness ==
  \E p \in Procs : \E q \in Procs \ {p} :
    /\ Saved(p) /\ Saved(q)
    /\ procs[p].seen = procs[q].seen
    /\ procs[q].stale /\ procs[q].wrote_last /\ ~procs[p].stale
    /\ procs[p].cmd = "add" /\ procs[q].cmd = "add"
    /\ \A i \in DOMAIN file.tasks : file.tasks[i] # procs[p].created

\* the file has been written by some invocation
Written == \E p \in Procs : procs[p].wrote_last

\* C19 as stated: once an invocation has finished with exit code 0, the
\* stored next_id of the file is exactly 1 + max(ids).
C19_StoredCounterExact ==
  (\E p \in Procs : procs[p].pc = "done" /\ procs[p].exit_code = 0)
    /\ file.kind = "json" /\ file.tasks_kind = "list" =>
      file.next_id = JInt(LeastAbove(file.tasks))

\* C19: with atomic reads and writes, under every interleaving of concurrent
\* add, delete and list invocations the file always passes load validation:
\* its ids are positive and pairwise distinct and a stored next_id is at
\* least 1 + max(ids); once any invocation has written the file the stored
\* next_id is exactly 1 + max(ids).  A file that was accepted with a larger
\* (or no) stored counter keeps it until the first write.
C19_FileAlwaysLoads ==
  /\ load_db(file).err = "ok"
  /\ file.tasks_kind = "list" =>
       /\ PositiveIds(file.tasks) /\ DistinctIds(file.tasks)
       /\ file.next_id = JAbsent \/ (IsInt(file.next_id) /\ AboveAllIds(file.next_id.v, file.tasks))
  /\ Written => file = JsonFile("list", file.tasks, JInt(LeastAbove(file.tasks)))
\* a delete and an add raced on a file with a task: the delete saved first,
\* the add saved last from what it had loaded, and the file holds two tasks
C19_Witness ==
  \E p \in Procs : \E q \in Procs \ {p} :
    /\ Saved(p) /\ Saved(q)
    /\ procs[p].cmd = "delete" /\ procs[q].cmd = "add"
    /\ procs[q].stale /\ procs[q].wrote_last
    /\ Len(file.tasks) = 2

====
